---- MODULE Spec2Model ----
(***************************************************************************)
(* Model of the CAD3D primitive composer (src/src/renderer/App.jsx): the   *)
(* Primitive Store (primitives, selectedId), the handle mode, and the      *)
(* gizmo transform session of the selected primitive (sessionRef, the      *)
(* proxy mesh, the TransformControls dragging flag).                       *)
(*                                                                         *)
(* Numbers.  A stored length or coordinate is an integer number of         *)
(* thousandths (1.5 is 1500).  A JavaScript number that is computed on the *)
(* way (a parsed text, a scale multiplier, a product) is an exact fraction *)
(* <<n, d>> with d > 0; d = 0 stands for the non-finite values (NaN,       *)
(* +-Infinity).  IEEE rounding of the products is not modelled.            *)
(***************************************************************************)
EXTENDS Integers, Sequences, FiniteSets, TLC

VARIABLES
    primitives,   \* useState(DEFAULT_PRIMITIVES): the ordered list
    selectedId,   \* useState: the id of the selected primitive, or NoId (null)
    handleMode,   \* useState(HANDLE_MODES.move)
    sessionRef,   \* EditablePrimitive's sessionRef, one per mounted key (id)
    meshRef,      \* the selected primitive's proxy mesh: engine position, scale
    dragging,     \* TransformControls: between its mouseDown and its mouseUp
    gesture,      \* history of the drag in progress, <<>> when there is none
    last,         \* history: the last event, its arguments and the state it found
    budget        \* how many more store mutator calls, edits and gizmo presses are explored

vars == <<primitives, selectedId, handleMode, sessionRef, meshRef, dragging,
          gesture, last, budget>>

---------------------------------------------------------------------------
\* Bounds of the model.

MaxPrims == 5      \* addPrimitive is explored while the list is shorter
MaxChanges == 1    \* mutator calls, edits and gizmo presses of a run of Spec; selecting,
                   \* deselecting, mode switches, drag updates and mouse-ups are not counted
MaxStoreChanges == 3   \* the same, of a run of SpecStore
MaxBuildChanges == 3   \* the same, of a run of SpecBuild
MaxEditChanges == 2    \* the same, of a run of SpecEdit
MaxSessionChanges == 2 \* the presses on the gizmo in a run of SpecSession
MaxReleaseChanges == 2 \* the edits and presses in a run of SpecRelease
MaxKindChanges == 3    \* the adds and inspector edits in a run of SpecKind
MaxNudgeChanges == 2   \* the position edits and arrow keys in a run of SpecNudge

---------------------------------------------------------------------------
\* JavaScript numbers as fractions.

NaN == <<0, 0>>

Num(n) == <<n, 1>>

IsFinite(q) == q[2] # 0

Abs(n) == IF n < 0 THEN -n ELSE n

MathAbs(q) == <<Abs(q[1]), q[2]>>

Mul(p, q) == <<p[1] * q[1], p[2] * q[2]>>

Plus(p, q) == <<p[1] * q[2] + q[1] * p[2], p[2] * q[2]>>

DivBy(p, k) == <<p[1], p[2] * k>>

Less(p, q) == p[1] * q[2] < q[1] * p[2]

\* Math.max of two finite numbers
MathMax(p, q) == IF Less(p, q) THEN q ELSE p

\* Math.round(n / d): the nearest integer, a half rounds up
MathRound(n, d) == (2 * n + d) \div (2 * d)

\* a stored value (thousandths) as a number, and back
FromMilli(v) == <<v, 1000>>

ToMilli(q) == MathRound(q[1] * 1000, q[2])

\* baseDimensions.width and the like: undefined (NaN in arithmetic) when absent
Field(rec, key) == IF key \in DOMAIN rec THEN FromMilli(rec[key]) ELSE NaN

---------------------------------------------------------------------------
\* Constants of the program.

NoId == "null"

DEFAULT_PRIMITIVES ==
    << [id |-> "prim-1", name |-> "Base Plate", type |-> "box", operation |-> "add",
        position |-> [x |-> 0, y |-> 0, z |-> 500],
        dimensions |-> [width |-> 6000, height |-> 1000, depth |-> 6000]],
       [id |-> "prim-2", name |-> "Center Column", type |-> "cylinder", operation |-> "add",
        position |-> [x |-> 0, y |-> 0, z |-> 2500],
        dimensions |-> [radius |-> 1200, height |-> 4000]],
       [id |-> "prim-3", name |-> "Corner Scoop", type |-> "sphere", operation |-> "subtract",
        position |-> [x |-> 2500, y |-> 2500, z |-> 1500],
        dimensions |-> [radius |-> 1400]] >>

\* variant: every kind starts from dimensions of one unit
typePresetsOfUnit ==
    [box |-> [label |-> "Box", dimensions |-> [width |-> 1000, height |-> 1000, depth |-> 1000]],
     sphere |-> [label |-> "Sphere", dimensions |-> [radius |-> 1000]],
     cylinder |-> [label |-> "Cylinder", dimensions |-> [radius |-> 1000, height |-> 1000]]]

TYPE_PRESETS ==
    [box |-> [label |-> "Box", dimensions |-> [width |-> 2000, height |-> 2000, depth |-> 2000]],
     sphere |-> [label |-> "Sphere", dimensions |-> [radius |-> 1500]],
     cylinder |-> [label |-> "Cylinder", dimensions |-> [radius |-> 1100, height |-> 3000]]]

Types == DOMAIN TYPE_PRESETS

HANDLE_MODES == [move |-> "move", resize |-> "resize"]

KEY_STEP == 250

MIN_DIMENSION == 100

\* the spread { ...a, ...b }: the keys of both, b's value where both have one
Spread(a, b) == b @@ a

---------------------------------------------------------------------------
\* Pure helpers.

\* Number.parseFloat over a text given as its characters: an optional sign, then
\* digits with an optional fraction, read as the longest such prefix; NaN when
\* no digit is read, Infinity for the literal.  Exponents are not read.
Digits == <<"0", "1", "2", "3", "4", "5", "6", "7", "8", "9">>

IsDigit(c) == \E i \in 1..10 : Digits[i] = c

DigitValue(c) == (CHOOSE i \in 1..10 : Digits[i] = c) - 1

RECURSIVE ReadDigits(_, _, _)
\* <<value, count, rest>> of the leading digits of text, continuing value/count
ReadDigits(text, value, count) ==
    IF text # <<>> /\ IsDigit(Head(text))
    THEN ReadDigits(Tail(text), 10 * value + DigitValue(Head(text)), count + 1)
    ELSE <<value, count, text>>

RECURSIVE Pow10(_)
Pow10(k) == IF k = 0 THEN 1 ELSE 10 * Pow10(k - 1)

ParseFloat(text) ==
    LET negative == text # <<>> /\ Head(text) = "-"
        signed == text # <<>> /\ Head(text) \in {"-", "+"}
        body == IF signed THEN Tail(text) ELSE text
        whole == ReadDigits(body, 0, 0)
        hasDot == whole[3] # <<>> /\ Head(whole[3]) = "."
        frac == IF hasDot THEN ReadDigits(Tail(whole[3]), whole[1], 0)
                ELSE <<whole[1], 0, whole[3]>>
        sign == IF negative THEN -1 ELSE 1
    IN  IF body # <<>> /\ Head(body) = "I" THEN <<sign, 0>>
        ELSE IF whole[2] + frac[2] = 0 THEN NaN
        ELSE <<sign * frac[1], Pow10(frac[2])>>

\* parseNumber(value, fallback), fallback and result in thousandths
parseNumber(value, fallback) ==
    LET parsed == ParseFloat(value)
    IN  IF IsFinite(parsed) THEN ToMilli(parsed) ELSE fallback

\* variant: the value is cut down to two decimals instead of rounded
roundValueDown(q) == 10 * ((q[1] * 100) \div q[2])

\* roundValue(value) with precision 2, of a finite number, in thousandths
roundValue(q) == 10 * MathRound(q[1] * 100, q[2])

positionToWorld(p) == [x |-> p.x, y |-> p.z, z |-> p.y]

\* variant: the axes are rotated instead of exchanged
positionFromWorldRotated(p) == [x |-> p.y, y |-> p.z, z |-> p.x]

positionFromWorld(p) == [x |-> p.x, y |-> p.z, z |-> p.y]

\* variant: only a non-finite value falls back to the floor
clampDimensionFinite(value) ==
    IF IsFinite(value) THEN value ELSE FromMilli(MIN_DIMENSION)

clampDimension(value) ==
    MathMax(FromMilli(MIN_DIMENSION), IF IsFinite(value) THEN value ELSE FromMilli(MIN_DIMENSION))

\* one dimension of the result: the base value times a factor, clamped, rounded
scaledBy(baseDimensions, key, factor) ==
    roundValue(clampDimension(Mul(Field(baseDimensions, key), factor)))

\* the mean of the absolute values of the three multipliers, and of x and z
meanOfThree(scale) ==
    DivBy(Plus(Plus(MathAbs(scale.x), MathAbs(scale.y)), MathAbs(scale.z)), 3)

meanOfTwo(scale) == DivBy(Plus(MathAbs(scale.x), MathAbs(scale.z)), 2)

\* variant: the width of a box follows z and its depth follows x
computeScaledDimensionsCrossed(type, baseDimensions, scale) ==
    IF type = "box"
    THEN [width |-> scaledBy(baseDimensions, "width", MathAbs(scale.z)),
          height |-> scaledBy(baseDimensions, "height", MathAbs(scale.y)),
          depth |-> scaledBy(baseDimensions, "depth", MathAbs(scale.x))]
    ELSE IF type = "sphere"
    THEN [radius |-> scaledBy(baseDimensions, "radius", meanOfThree(scale))]
    ELSE [radius |-> scaledBy(baseDimensions, "radius", meanOfTwo(scale)),
          height |-> scaledBy(baseDimensions, "height", MathAbs(scale.y))]

\* variant: the radius of a sphere follows x and z alone
computeScaledDimensionsPlanar(type, baseDimensions, scale) ==
    IF type = "box"
    THEN [width |-> scaledBy(baseDimensions, "width", MathAbs(scale.x)),
          height |-> scaledBy(baseDimensions, "height", MathAbs(scale.y)),
          depth |-> scaledBy(baseDimensions, "depth", MathAbs(scale.z))]
    ELSE IF type = "sphere"
    THEN [radius |-> scaledBy(baseDimensions, "radius", meanOfTwo(scale))]
    ELSE [radius |-> scaledBy(baseDimensions, "radius", meanOfTwo(scale)),
          height |-> scaledBy(baseDimensions, "height", MathAbs(scale.y))]

\* variant: the radius of a cylinder follows all three multipliers
computeScaledDimensionsRound(type, baseDimensions, scale) ==
    IF type = "box"
    THEN [width |-> scaledBy(baseDimensions, "width", MathAbs(scale.x)),
          height |-> scaledBy(baseDimensions, "height", MathAbs(scale.y)),
          depth |-> scaledBy(baseDimensions, "depth", MathAbs(scale.z))]
    ELSE IF type = "sphere"
    THEN [radius |-> scaledBy(baseDimensions, "radius", meanOfThree(scale))]
    ELSE [radius |-> scaledBy(baseDimensions, "radius", meanOfThree(scale)),
          height |-> scaledBy(baseDimensions, "height", MathAbs(scale.y))]

computeScaledDimensions(type, baseDimensions, scale) ==
    IF type = "box"
    THEN [width |-> roundValue(clampDimension(Mul(Field(baseDimensions, "width"), MathAbs(scale.x)))),
          height |-> roundValue(clampDimension(Mul(Field(baseDimensions, "height"), MathAbs(scale.y)))),
          depth |-> roundValue(clampDimension(Mul(Field(baseDimensions, "depth"), MathAbs(scale.z))))]
    ELSE IF type = "sphere"
    THEN LET uniformScale == DivBy(Plus(Plus(MathAbs(scale.x), MathAbs(scale.y)), MathAbs(scale.z)), 3)
         IN  [radius |-> roundValue(clampDimension(Mul(Field(baseDimensions, "radius"), uniformScale)))]
    ELSE LET radialScale == DivBy(Plus(MathAbs(scale.x), MathAbs(scale.z)), 2)
         IN  [radius |-> roundValue(clampDimension(Mul(Field(baseDimensions, "radius"), radialScale))),
              height |-> roundValue(clampDimension(Mul(Field(baseDimensions, "height"), MathAbs(scale.y))))]

---------------------------------------------------------------------------
\* The Primitive Store mutators, as functions of the list.

Ids(items) == {items[i].id : i \in 1..Len(items)}

\* items.findIndex(p => p.id === id): 0-based, -1 when absent
findIndex(items, id) ==
    IF id \in Ids(items)
    THEN (CHOOSE i \in 1..Len(items) :
              items[i].id = id /\ \A j \in 1..(i - 1) : items[j].id # id) - 1
    ELSE -1

\* primitives.find(p => p.id === selectedId) ?? null, as a list of zero or one
selectedPrimitive(items, id) ==
    IF id \in Ids(items) THEN <<items[findIndex(items, id) + 1]>> ELSE <<>>

\* the updater closures the program passes to patchPrimitive, as data
ApplyUpdater(updater, current) ==
    CASE updater.kind = "object" ->
             Spread(current, updater.patch)
      [] updater.kind = "name" ->
             [current EXCEPT !.name = updater.value]
      [] updater.kind = "type" ->
             [current EXCEPT !.type = updater.nextType,
                             !.dimensions = TYPE_PRESETS[updater.nextType].dimensions]
      [] updater.kind = "operation" ->
             [current EXCEPT !.operation = updater.value]
      [] updater.kind = "position" ->
             [current EXCEPT !.position[updater.axis] =
                                 parseNumber(updater.text, current.position[updater.axis])]
      [] updater.kind = "dimension" ->
             [current EXCEPT !.dimensions =
                                 Spread(current.dimensions, updater.key :> updater.value)]
      [] updater.kind = "transform" ->
             [current EXCEPT
                 !.position = IF "position" \in DOMAIN updater.payload
                              THEN updater.payload.position ELSE @,
                 !.dimensions = IF "dimensions" \in DOMAIN updater.payload
                                THEN updater.payload.dimensions ELSE @]
      [] updater.kind = "nudge" ->
             [current EXCEPT
                 !.position = [x |-> roundValue(FromMilli(current.position.x + updater.deltas.x)),
                               y |-> roundValue(FromMilli(current.position.y + updater.deltas.y)),
                               z |-> roundValue(FromMilli(current.position.z + updater.deltas.z))]]

\* variant: the item is looked up by index, and the index -1 of an absent id
\* addresses the last item
patchPrimitiveAt(items, id, updater) ==
    LET index == IF findIndex(items, id) = -1 THEN Len(items) - 1 ELSE findIndex(items, id)
    IN  [i \in 1..Len(items) |->
            IF i # index + 1 THEN items[i] ELSE ApplyUpdater(updater, items[i])]

patchPrimitive(items, id, updater) ==
    [i \in 1..Len(items) |->
        IF items[i].id # id THEN items[i] ELSE ApplyUpdater(updater, items[i])]

\* variant: the new primitive is left at the origin, not seated on the ground plane
newPrimitiveUnseated(type, id, number) ==
    LET preset == TYPE_PRESETS[type]
    IN  [id |-> id,
         name |-> preset.label \o " " \o ToString(number),
         type |-> type,
         operation |-> IF type = "sphere" THEN "subtract" ELSE "add",
         position |-> [x |-> 0, y |-> 0, z |-> 0],
         dimensions |-> preset.dimensions]

\* the primitive addPrimitive(type) builds, given its two Math.random() draws
newPrimitive(type, id, number) ==
    LET preset == TYPE_PRESETS[type]
    IN  [id |-> id,
         name |-> preset.label \o " " \o ToString(number),
         type |-> type,
         operation |-> IF type = "sphere" THEN "subtract" ELSE "add",
         position |-> [x |-> 0, y |-> 0,
                       z |-> IF "height" \in DOMAIN preset.dimensions /\ preset.dimensions.height # 0
                             THEN preset.dimensions.height \div 2
                             ELSE preset.dimensions.radius],
         dimensions |-> preset.dimensions]

\* variant: the new primitive is put at the head of the list
addPrimitivePrepending(items, type, id, number) == <<newPrimitive(type, id, number)>> \o items

addPrimitive(items, type, id, number) == Append(items, newPrimitive(type, id, number))

\* items.filter(item => item.id !== id)
removeFiltered(items, id) == SelectSeq(items, LAMBDA item : item.id # id)

\* variant: the selection is left as it is
removeSelectionKeeping(filtered, current, id) == current

\* the selection removePrimitive(id) sets, from the filtered list and the current one
removeSelection(filtered, current, id) ==
    IF Len(filtered) = 0 THEN NoId
    ELSE IF current = id \/ current \notin Ids(filtered)
         THEN filtered[Len(filtered)].id
         ELSE current

reorderPrimitive(items, id, direction) ==
    LET index == findIndex(items, id)
        targetIndex == index + direction
    IN  IF index = -1 THEN items
        ELSE IF targetIndex < 0 \/ targetIndex >= Len(items) THEN items
        ELSE LET moved == items[index + 1]
                 spliced == SubSeq(items, 1, index) \o SubSeq(items, index + 2, Len(items))
             IN  SubSeq(spliced, 1, targetIndex) \o <<moved>>
                   \o SubSeq(spliced, targetIndex + 1, Len(spliced))

---------------------------------------------------------------------------
\* Inputs of the events, drawn from small sets.

\* outcomes of randomId(): 'prim-' and up to seven base-36 digits of Math.random()
RandomIds == {"prim-i", "prim-9"}

\* outcomes of Math.floor(Math.random() * 90 + 10) in the new primitive's name
RandomNumbers == {10}

\* the ids a caller can hold: those of the default store and those randomId draws
IdPool == Ids(DEFAULT_PRIMITIVES) \cup RandomIds

\* texts typed into a numeric field, as their characters
InputTexts == { <<>>, <<"0">>, <<"-", "1">>, <<"2", ".", "5", "0", "4">> }

UnitScale == [x |-> Num(1), y |-> Num(1), z |-> Num(1)]

\* proxy scales a scale drag leaves (multipliers, as fractions)
DragScales == { [x |-> Num(2), y |-> <<1, 2>>, z |-> Num(3)],
                [x |-> Num(0), y |-> Num(0), z |-> Num(0)] }

\* proxy positions a translate drag leaves (engine space, thousandths)
DragPositions == { [x |-> 1000, y |-> 2004, z |-> -3005] }

Axes == {"x", "y", "z"}

ArrowKeys == {"ArrowUp", "ArrowDown", "ArrowLeft", "ArrowRight"}

\* keydown events: every arrow with and without Shift, an arrow typed into a form
\* field, and a key that is no arrow
KeyEvents ==
    [key : ArrowKeys, shiftKey : BOOLEAN, inField : {FALSE}]
        \cup {[key |-> "ArrowUp", shiftKey |-> FALSE, inField |-> TRUE],
              [key |-> "Enter", shiftKey |-> FALSE, inField |-> FALSE]}

Range(seq) == {seq[i] : i \in 1..Len(seq)}

---------------------------------------------------------------------------
\* Rendering: what the commit of a state change does to the mounted components.

NoSession == <<>>

NoMesh == [position |-> [x |-> 0, y |-> 0, z |-> 0], scale |-> UnitScale]

\* the primitives rendered under the key id (one, unless ids collide)
Instances(items, id) == {items[i] : i \in {j \in 1..Len(items) : items[j].id = id}}

InstancePositions(items, id) == {p.position : p \in Instances(items, id)}

\* PrimitiveGhost mounts at the engine-space position, with the scale of a new mesh
MountedMesh(position) == [position |-> positionToWorld(position), scale |-> UnitScale]

\* A sessionRef lives as long as its EditablePrimitive (key = id) is mounted.  The
\* proxy and the TransformControls are mounted anew when isSelected changes (the
\* drag in progress ends with the controls); while they stay mounted the position
\* prop is applied again only when it changes.
\* No proxy is mounted while no rendered primitive carries the selected id.
Render(newPrims, newSel, session, mesh, drag, newGesture) ==
    /\ sessionRef' = [id \in IdPool |-> IF id \in Ids(newPrims) THEN session[id] ELSE NoSession]
    /\ IF newSel \notin Ids(newPrims)
       THEN meshRef' = NoMesh /\ dragging' = FALSE /\ gesture' = <<>>
       ELSE IF newSel # selectedId
       THEN /\ dragging' = FALSE
            /\ gesture' = <<>>
            /\ \E pos \in InstancePositions(newPrims, newSel) : meshRef' = MountedMesh(pos)
       ELSE /\ dragging' = drag
            /\ gesture' = IF drag THEN newGesture ELSE <<>>
            /\ IF InstancePositions(newPrims, newSel) = InstancePositions(primitives, selectedId)
               THEN meshRef' = mesh
               ELSE \E pos \in InstancePositions(newPrims, newSel) :
                        meshRef' = [mesh EXCEPT !.position = positionToWorld(pos)]

\* React keeps one child per key.  While two primitives carry one id the list is
\* rendered with colliding keys, which React leaves unspecified: the events of the
\* keyed components (the gizmo and the on-canvas labels of EditablePrimitive) are
\* explored only from lists of distinct keys.  The events of App and of the
\* inspector do not depend on the keyed children and are explored from every list.
KeysDistinct == \A i, j \in 1..Len(primitives) : primitives[i].id = primitives[j].id => i = j

\* the record of an event: its name, the id it was about, its argument, and the
\* store, selection and drag history it found
Event(op, id, arg) ==
    [op |-> op, id |-> id, arg |-> arg,
     primitives |-> primitives, selectedId |-> selectedId, gesture |-> gesture]

\* the drag history after an event that is no drag update
Disturbed(modeChanged) ==
    IF gesture = <<>> THEN <<>>
    ELSE <<[gesture[1] EXCEPT !.clean = FALSE, !.switched = @ \/ modeChanged]>>

\* an event that is no gizmo event: state change, render, history
Commit(op, id, arg, newPrims, newSel, newMode) ==
    /\ primitives' = newPrims
    /\ selectedId' = newSel
    /\ handleMode' = newMode
    /\ Render(newPrims, newSel, sessionRef, meshRef, dragging, Disturbed(newMode # handleMode))
    /\ last' = Event(op, id, arg)

\* a store-writing edit event: patchPrimitive(id, updater)
Edit(op, id, arg, updater) ==
    /\ budget > 0
    /\ budget' = budget - 1
    /\ Commit(op, id, arg, patchPrimitive(primitives, id, updater), selectedId, handleMode)

---------------------------------------------------------------------------
\* Primitive Store events.

AddPrimitive ==
    /\ Len(primitives) < MaxPrims
    /\ budget > 0
    /\ budget' = budget - 1
    /\ \E type \in Types, id \in RandomIds, number \in RandomNumbers :
          Commit("addPrimitive", id, type, addPrimitive(primitives, type, id, number), id, handleMode)

RemovePrimitive ==
    /\ budget > 0
    /\ budget' = budget - 1
    /\ \E id \in IdPool :
          LET filtered == removeFiltered(primitives, id)
          IN  Commit("removePrimitive", id, <<>>, filtered,
                     removeSelection(filtered, selectedId, id), handleMode)

ReorderPrimitive ==
    /\ budget > 0
    /\ budget' = budget - 1
    /\ \E id \in IdPool, direction \in {-1, 1} :
          Commit("reorderPrimitive", id, direction,
                 reorderPrimitive(primitives, id, direction), selectedId, handleMode)

\* updaters of a patchPrimitive call: an object to merge, a function of the item
PatchUpdaters == { [kind |-> "object", patch |-> [operation |-> "subtract"]],
                   [kind |-> "operation", value |-> "add"] }

\* patchPrimitive called by a holder of any id
PatchPrimitive ==
    /\ budget > 0
    /\ budget' = budget - 1
    /\ \E id \in IdPool, updater \in PatchUpdaters :
          Commit("patchPrimitive", id, updater,
                 patchPrimitive(primitives, id, updater), selectedId, handleMode)

\* a click on a list row, or a pointer-down on a primitive of the viewport
SelectPrimitive ==
    /\ \E id \in Ids(primitives) : Commit("select", id, <<>>, primitives, id, handleMode)
    /\ UNCHANGED budget

\* variant: a deselect that first writes the proxy's position to the store
HandleDeselectFinalizing ==
    /\ Commit("deselect", NoId, <<>>,
              IF dragging
              THEN patchPrimitive(primitives, selectedId,
                       [kind |-> "transform",
                        payload |-> [position |-> positionFromWorld(meshRef.position)]])
              ELSE primitives,
              NoId, handleMode)
    /\ UNCHANGED budget

\* onPointerMissed of the canvas
HandleDeselect ==
    /\ Commit("deselect", NoId, <<>>, primitives, NoId, handleMode)
    /\ UNCHANGED budget

SetHandleMode ==
    /\ \E value \in {HANDLE_MODES.move, HANDLE_MODES.resize} :
          Commit("setHandleMode", NoId, value, primitives, selectedId, value)
    /\ UNCHANGED budget

---------------------------------------------------------------------------
\* The gizmo of the selected primitive (EditablePrimitive).

\* mode = handleMode === HANDLE_MODES.resize ? 'scale' : 'translate'
TransformMode(mode) == IF mode = HANDLE_MODES.resize THEN "scale" ELSE "translate"

\* variant: the payload is merged into every primitive of the list
handleTransformPrimitiveOfAll(items, id, payload) ==
    [i \in 1..Len(items) |->
        ApplyUpdater([kind |-> "transform", payload |-> payload], items[i])]

\* handleTransformPrimitive(id, payload), as the updater it passes to patchPrimitive
handleTransformPrimitive(items, id, payload) ==
    patchPrimitive(items, id, [kind |-> "transform", payload |-> payload])

\* whether finalizeResize passes its guard
resizeCommits(mode, session) == mode = "scale" /\ session # NoSession

\* the onTransform calls of finalizeResize, as <<payload>> or <<>>
finalizeResize(primitive, mode, session, mesh) ==
    IF ~resizeCommits(mode, session) THEN <<>>
    ELSE <<[dimensions |-> computeScaledDimensions(primitive.type, session[1].startDimensions, mesh.scale)]>>

\* the proxy after finalizeResize: meshRef.current.scale.set(1, 1, 1)
meshAfterResize(mode, session, mesh) ==
    IF ~resizeCommits(mode, session) THEN mesh ELSE [mesh EXCEPT !.scale = UnitScale]

\* variant: finalizeTranslate without its guard on the mode
finalizeTranslateUnguarded(mode, mesh) ==
    <<[position |-> positionFromWorld([x |-> roundValue(FromMilli(mesh.position.x)),
                                       y |-> roundValue(FromMilli(mesh.position.y)),
                                       z |-> roundValue(FromMilli(mesh.position.z))])]>>

\* the onTransform calls of finalizeTranslate, as <<payload>> or <<>>
finalizeTranslate(mode, mesh) ==
    IF mode # "translate" THEN <<>>
    ELSE <<[position |-> positionFromWorld([x |-> roundValue(FromMilli(mesh.position.x)),
                                            y |-> roundValue(FromMilli(mesh.position.y)),
                                            z |-> roundValue(FromMilli(mesh.position.z))])]>>

RECURSIVE applyTransforms(_, _, _)
\* the list after the onTransform(id, payload) calls of one handler, in call order
applyTransforms(items, id, payloads) ==
    IF payloads = <<>> THEN items
    ELSE applyTransforms(handleTransformPrimitive(items, id, Head(payloads)), id, Tail(payloads))

\* TransformControls onMouseDown: the press on a handle of the gizmo
OnMouseDown ==
    /\ selectedId # NoId
    /\ ~dragging
    /\ KeysDistinct
    /\ budget > 0
    /\ budget' = budget - 1
    /\ \E primitive \in Instances(primitives, selectedId) :
          LET mode == TransformMode(handleMode)
              session == IF mode = "scale"
                         THEN [sessionRef EXCEPT ![selectedId] =
                                   <<[startDimensions |-> primitive.dimensions]>>]
                         ELSE sessionRef
          IN  Render(primitives, selectedId, session, meshRef, TRUE,
                     <<[store |-> primitives, mode |-> handleMode, moved |-> FALSE,
                        clean |-> TRUE, switched |-> FALSE]>>)
    /\ last' = Event("mouseDown", selectedId, TransformMode(handleMode))
    /\ UNCHANGED <<primitives, selectedId, handleMode>>

\* variant: every drag update of a translate drag is written to the store
ProxyDragLive ==
    /\ dragging
    /\ KeysDistinct
    /\ IF TransformMode(handleMode) = "translate"
       THEN \E position \in DragPositions :
               /\ meshRef' = [meshRef EXCEPT !.position = position]
               /\ primitives' = handleTransformPrimitive(primitives, selectedId,
                                     [position |-> positionFromWorld(position)])
       ELSE \E scale \in DragScales :
               /\ meshRef' = [meshRef EXCEPT !.scale = scale]
               /\ primitives' = primitives
    /\ gesture' = <<[gesture[1] EXCEPT !.moved = TRUE]>>
    /\ last' = Event("drag", selectedId, TransformMode(handleMode))
    /\ UNCHANGED <<selectedId, handleMode, sessionRef, dragging, budget>>

\* the pointer moves with a handle held: the controls move or scale the proxy
ProxyDrag ==
    /\ dragging
    /\ KeysDistinct
    /\ IF TransformMode(handleMode) = "translate"
       THEN \E position \in DragPositions : meshRef' = [meshRef EXCEPT !.position = position]
       ELSE \E scale \in DragScales : meshRef' = [meshRef EXCEPT !.scale = scale]
    /\ gesture' = <<[gesture[1] EXCEPT !.moved = TRUE]>>
    /\ last' = Event("drag", selectedId, TransformMode(handleMode))
    /\ UNCHANGED <<primitives, selectedId, handleMode, sessionRef, dragging, budget>>

\* variant: the release leaves sessionRef.current as it is
OnMouseUpKeeping ==
    /\ dragging
    /\ KeysDistinct
    /\ \E primitive \in Instances(primitives, selectedId) :
          LET mode == TransformMode(handleMode)
              session == sessionRef[selectedId]
              mesh == meshAfterResize(mode, session, meshRef)
              writes == finalizeResize(primitive, mode, session, meshRef) \o finalizeTranslate(mode, mesh)
              committed == applyTransforms(primitives, primitive.id, writes)
          IN  /\ primitives' = committed
              /\ Render(committed, selectedId, sessionRef, mesh, FALSE, <<>>)
              /\ last' = Event("mouseUp", selectedId,
                               [mode |-> mode, mesh |-> meshRef, session |-> session, writes |-> writes])
    /\ UNCHANGED <<selectedId, handleMode, budget>>

\* TransformControls onMouseUp: finalizeResize(); finalizeTranslate(); sessionRef.current = null
OnMouseUp ==
    /\ dragging
    /\ KeysDistinct
    /\ \E primitive \in Instances(primitives, selectedId) :
          LET mode == TransformMode(handleMode)
              session == sessionRef[selectedId]
              mesh == meshAfterResize(mode, session, meshRef)
              writes == finalizeResize(primitive, mode, session, meshRef) \o finalizeTranslate(mode, mesh)
              committed == applyTransforms(primitives, primitive.id, writes)
          IN  /\ primitives' = committed
              /\ Render(committed, selectedId, [sessionRef EXCEPT ![selectedId] = NoSession],
                        mesh, FALSE, <<>>)
              /\ last' = Event("mouseUp", selectedId,
                               [mode |-> mode, mesh |-> meshRef, session |-> session, writes |-> writes])
    /\ UNCHANGED <<selectedId, handleMode, budget>>

---------------------------------------------------------------------------
\* Keyboard nudges (App's keydown handler).

nudgeDeltas(key, shiftKey) ==
    LET step == IF shiftKey THEN KEY_STEP * 2 ELSE KEY_STEP
    IN  [x |-> IF key = "ArrowLeft" THEN -step ELSE IF key = "ArrowRight" THEN step ELSE 0,
         y |-> 0,
         z |-> IF key = "ArrowUp" THEN step ELSE IF key = "ArrowDown" THEN -step ELSE 0]

\* whether the handler returns before patching
keyIgnored(sel, key, inField) == sel = NoId \/ inField \/ key \notin ArrowKeys

HandleKeyDown ==
    \E event \in KeyEvents :
       IF keyIgnored(selectedId, event.key, event.inField)
       THEN /\ Commit("keyIgnored", selectedId, <<>>, primitives, selectedId, handleMode)
            /\ UNCHANGED budget
       ELSE Edit("keyDown", selectedId, <<event.key, event.shiftKey>>,
                 [kind |-> "nudge", deltas |-> nudgeDeltas(event.key, event.shiftKey)])

---------------------------------------------------------------------------
\* The inspector of the selected primitive (PrimitiveInspector).

InspectorType ==
    \E primitive \in Range(selectedPrimitive(primitives, selectedId)), nextType \in Types :
       Edit("inspectorType", primitive.id, nextType, [kind |-> "type", nextType |-> nextType])

InspectorOperation ==
    \E primitive \in Range(selectedPrimitive(primitives, selectedId)), value \in {"add", "subtract"} :
       Edit("inspectorOperation", primitive.id, value, [kind |-> "operation", value |-> value])

InspectorPosition ==
    \E primitive \in Range(selectedPrimitive(primitives, selectedId)), axis \in Axes, text \in InputTexts :
       Edit("inspectorPosition", primitive.id, <<axis, text>>,
            [kind |-> "position", axis |-> axis, text |-> text])

\* the value an inspector dimension input passes to handleDimensionsChange
inspectorDimensionValue(type, dimensions, key, text) ==
    IF type = "box"
    THEN parseNumber(text, dimensions[key])
    ELSE ToMilli(MathMax(FromMilli(MIN_DIMENSION), FromMilli(parseNumber(text, dimensions[key]))))

InspectorDimension ==
    \E primitive \in Range(selectedPrimitive(primitives, selectedId)), text \in InputTexts :
       \E key \in DOMAIN TYPE_PRESETS[primitive.type].dimensions :
          Edit("inspectorDimension", primitive.id, <<key, text>>,
               [kind |-> "dimension", key |-> key,
                value |-> inspectorDimensionValue(primitive.type, primitive.dimensions, key, text)])

---------------------------------------------------------------------------
\* The on-canvas labels of the selected primitive.

\* clampSize(value, min) of DimensionIndicators; value is a finite number, which
\* parseNumber(value, 0) returns as it is
clampSize(value, min) == roundValue(MathMax(FromMilli(min), FromMilli(value)))

\* the number a label shows for a dimension key: the dimension, or the diameter
labelValue(dimensions, key) ==
    IF key = "radius" THEN roundValue(FromMilli(dimensions[key] * 2))
    ELSE roundValue(FromMilli(dimensions[key]))

\* the nextDimensions an arrow's onCommit passes to updateDimensions
labelDimensions(key, value) ==
    IF key = "radius" THEN key :> (clampSize(value, 200) \div 2)
    ELSE key :> clampSize(value, MIN_DIMENSION)

\* updateDimensions(nextDimensions): the payload handed to onChange
updateDimensions(primitive, nextDimensions) ==
    [dimensions |-> Spread(primitive.dimensions, nextDimensions)]

\* DimensionArrow handleChange / commitValue, shown in resize mode
DimensionLabel ==
    /\ handleMode = HANDLE_MODES.resize
    /\ KeysDistinct
    /\ \E primitive \in Instances(primitives, selectedId), text \in InputTexts :
          \E key \in DOMAIN TYPE_PRESETS[primitive.type].dimensions :
             Edit("dimensionLabel", primitive.id, <<key, text>>,
                  [kind |-> "transform",
                   payload |-> updateDimensions(primitive,
                       labelDimensions(key, parseNumber(text, labelValue(primitive.dimensions, key))))])

\* updatePosition(axisKey, nextValue): the payload handed to onChange
updatePosition(primitive, axisKey, nextValue) ==
    [position |-> Spread(primitive.position, axisKey :> roundValue(FromMilli(nextValue)))]

\* DistanceValueLabel handleChange, shown in move mode
DistanceLabel ==
    /\ handleMode # HANDLE_MODES.resize
    /\ KeysDistinct
    /\ \E primitive \in Instances(primitives, selectedId), axis \in Axes, text \in InputTexts :
          Edit("distanceLabel", primitive.id, <<axis, text>>,
               [kind |-> "transform",
                payload |-> updatePosition(primitive, axis,
                    parseNumber(text, roundValue(FromMilli(primitive.position[axis]))))])

---------------------------------------------------------------------------
\* The Solid Builder (buildCombinedMesh).  The boolean-geometry library is used
\* as an opaque engine: a CSG value is the expression the calls build up.

\* variant: the mesh carries the id of its primitive
primitiveToMeshTagged(primitive) ==
    [geometry |-> [kind |-> "BoxGeometry", args |-> <<primitive.id>>],
     position |-> positionToWorld(primitive.position)]

\* variant: the mesh carries the name of its primitive
primitiveToMeshNamed(primitive) ==
    [geometry |-> [kind |-> "BoxGeometry", args |-> <<primitive.name>>],
     position |-> positionToWorld(primitive.position)]

\* primitiveToMesh(primitive): the geometry of the kind, placed in engine space
primitiveToMesh(primitive) ==
    LET type == primitive.type
        dimensions == primitive.dimensions
    IN  [geometry |->
             IF type = "box"
             THEN [kind |-> "BoxGeometry",
                   args |-> <<dimensions.width, dimensions.height, dimensions.depth>>]
             ELSE IF type = "sphere"
             THEN [kind |-> "SphereGeometry", args |-> <<dimensions.radius, 48, 32>>]
             ELSE [kind |-> "CylinderGeometry",
                   args |-> <<dimensions.radius, dimensions.radius, dimensions.height, 48>>],
         position |-> positionToWorld(primitive.position)]

\* CSG.fromMesh(mesh)
fromMesh(mesh) == [op |-> "fromMesh", mesh |-> mesh]

\* merged.union(next)
union(merged, next) == [op |-> "union", left |-> merged, right |-> next]

\* merged.subtract(next)
subtract(merged, next) == [op |-> "subtract", left |-> merged, right |-> next]

\* CSG.toMesh(merged, new THREE.Matrix4(), material), with the two shadow flags set
toMesh(merged) ==
    [csg |-> merged,
     material |-> [color |-> "#ffb347", roughness |-> 550, metalness |-> 150],
     castShadow |-> TRUE, receiveShadow |-> TRUE]

RECURSIVE mergeUnionOnly(_, _, _)
\* variant: every later primitive is united, whatever its operation
mergeUnionOnly(items, i, merged) ==
    IF i >= Len(items) THEN merged
    ELSE mergeUnionOnly(items, i + 1, union(merged, fromMesh(primitiveToMesh(items[i + 1]))))

RECURSIVE mergeLoop(_, _, _)
\* the for loop of buildCombinedMesh from the 0-based index i, merged so far
mergeLoop(items, i, merged) ==
    IF i >= Len(items) THEN merged
    ELSE LET primitive == items[i + 1]
             next == fromMesh(primitiveToMesh(primitive))
         IN  mergeLoop(items, i + 1,
                       IF primitive.operation = "subtract"
                       THEN subtract(merged, next) ELSE union(merged, next))

\* variant: a subtractive first primitive is cut out of the second one
buildCombinedMeshBaseCut(items) ==
    IF Len(items) = 0 THEN <<>>
    ELSE IF Len(items) >= 2 /\ items[1].operation = "subtract"
    THEN <<toMesh(mergeLoop(items, 2,
                   subtract(fromMesh(primitiveToMesh(items[2])),
                            fromMesh(primitiveToMesh(items[1])))))>>
    ELSE <<toMesh(mergeLoop(items, 1, fromMesh(primitiveToMesh(items[1]))))>>

\* variant: the additive primitives are folded before the subtractive ones
buildCombinedMeshBatched(items) ==
    LET batched == SelectSeq(items, LAMBDA item : item.operation # "subtract")
                     \o SelectSeq(items, LAMBDA item : item.operation = "subtract")
    IN  IF Len(items) = 0 THEN <<>>
        ELSE <<toMesh(mergeLoop(batched, 1, fromMesh(primitiveToMesh(batched[1]))))>>

\* buildCombinedMesh(primitives): <<>> for null, <<mesh>> for a mesh
buildCombinedMesh(items) ==
    IF Len(items) = 0 THEN <<>>
    ELSE <<toMesh(mergeLoop(items, 1, fromMesh(primitiveToMesh(items[1]))))>>

\* variant: the library is called before the list is looked at
callBuildEager(items, csgFails) ==
    IF csgFails
    THEN [thrown |-> TRUE, value |-> <<>>]
    ELSE [thrown |-> FALSE, value |-> buildCombinedMesh(items)]

\* a call of buildCombinedMesh: what it returns, or that it threw.  No call of
\* the library is guarded, so an exception of the library leaves the function.
callBuild(items, csgFails) ==
    IF Len(items) # 0 /\ csgFails
    THEN [thrown |-> TRUE, value |-> <<>>]
    ELSE [thrown |-> FALSE, value |-> buildCombinedMesh(items)]

\* exportToSTL: builds the mesh and, when there is one, hands it to the exporter
ExportToSTL ==
    /\ \E csgFails \in BOOLEAN :
          last' = Event("exportToSTL", NoId,
                        [csgFails |-> csgFails, built |-> callBuild(primitives, csgFails)])
    /\ UNCHANGED <<primitives, selectedId, handleMode, sessionRef, meshRef, dragging,
                   gesture, budget>>

---------------------------------------------------------------------------
\* The Dimension-from-Scale Resolver applied to inputs drawn from small sets.

\* multipliers of one axis: inverted, zero, shrinking, unity, growing
ScaleFactors == { Num(-2), Num(0), <<1, 3>>, <<1, 2>>, Num(1), Num(2), Num(3) }

ScaleTriples == { [x |-> sx, y |-> sy, z |-> sz] : sx, sy, sz \in ScaleFactors }

\* snapshots of dimensions: the presets, the default primitives, a unit sphere,
\* a box with a field the inspector left non-positive
BaseDimensions ==
    { TYPE_PRESETS[type].dimensions : type \in Types }
      \cup { DEFAULT_PRIMITIVES[i].dimensions : i \in 1..Len(DEFAULT_PRIMITIVES) }
      \cup { [radius |-> 1000], [width |-> -1000, height |-> 0, depth |-> 2000] }

\* computeScaledDimensions(type, baseDimensions, scale) called once: the function
\* reads nothing but its arguments, so one call per behaviour shows all of it
ComputeScaledDimensions ==
    /\ last.op = "init"
    /\ \E type \in Types, baseDimensions \in BaseDimensions, scale \in ScaleTriples :
          last' = Event("computeScaledDimensions", NoId,
                        [type |-> type, baseDimensions |-> baseDimensions, scale |-> scale,
                         result |-> computeScaledDimensions(type, baseDimensions, scale)])
    /\ UNCHANGED <<primitives, selectedId, handleMode, sessionRef, meshRef, dragging,
                   gesture, budget>>

---------------------------------------------------------------------------
\* Initial state: App's useState initial values, first render.

InitWith(changes) ==
    /\ primitives = DEFAULT_PRIMITIVES
    /\ selectedId = DEFAULT_PRIMITIVES[1].id
    /\ handleMode = HANDLE_MODES.move
    /\ sessionRef = [id \in IdPool |-> NoSession]
    /\ meshRef = MountedMesh(DEFAULT_PRIMITIVES[1].position)
    /\ dragging = FALSE
    /\ gesture = <<>>
    /\ last = [op |-> "init", id |-> NoId, arg |-> <<>>,
               primitives |-> <<>>, selectedId |-> NoId, gesture |-> <<>>]
    /\ budget = changes

Init == InitWith(MaxChanges)

\* The program: any event, in any order.
Next ==
    \/ AddPrimitive
    \/ RemovePrimitive
    \/ ReorderPrimitive
    \/ PatchPrimitive
    \/ SelectPrimitive
    \/ HandleDeselect
    \/ SetHandleMode
    \/ OnMouseDown
    \/ ProxyDrag
    \/ OnMouseUp
    \/ HandleKeyDown
    \/ InspectorType
    \/ InspectorOperation
    \/ InspectorPosition
    \/ InspectorDimension
    \/ DimensionLabel
    \/ DistanceLabel
    \/ ExportToSTL

Spec == Init /\ [][Next]_vars

\* The Primitive Store alone: its mutators and the selection, explored deeper.
InitStore == InitWith(MaxStoreChanges)

NextStore ==
    \/ AddPrimitive
    \/ RemovePrimitive
    \/ ReorderPrimitive
    \/ PatchPrimitive
    \/ SelectPrimitive
    \/ HandleDeselect

SpecStore == InitStore /\ [][NextStore]_vars

\* The Solid Builder over the lists that adding, removing, reordering and the
\* inspector's kind, operation and position fields produce.
InitBuild == InitWith(MaxBuildChanges)

NextBuild ==
    \/ AddPrimitive
    \/ RemovePrimitive
    \/ ReorderPrimitive
    \/ InspectorType
    \/ InspectorOperation
    \/ InspectorPosition
    \/ ExportToSTL

SpecBuild == InitBuild /\ [][NextBuild]_vars

\* The numeric fields of the inspector and of the on-canvas labels.
InitEdit == InitWith(MaxEditChanges)

NextEdit ==
    \/ SelectPrimitive
    \/ SetHandleMode
    \/ InspectorPosition
    \/ InspectorDimension
    \/ DimensionLabel
    \/ DistanceLabel

SpecEdit == InitEdit /\ [][NextEdit]_vars

\* The gizmo alone: selection, handle mode, presses, drags and releases.
InitSession == InitWith(MaxSessionChanges)

NextSession ==
    \/ SelectPrimitive
    \/ HandleDeselect
    \/ SetHandleMode
    \/ OnMouseDown
    \/ ProxyDrag
    \/ OnMouseUp

SpecSession == InitSession /\ [][NextSession]_vars

\* The gizmo's press and release over the dimension records that adding, the
\* inspector's type and dimension edits and the on-canvas labels leave.
InitRelease == InitWith(MaxReleaseChanges)

NextRelease ==
    \/ AddPrimitive
    \/ SelectPrimitive
    \/ SetHandleMode
    \/ InspectorType
    \/ InspectorDimension
    \/ DimensionLabel
    \/ OnMouseDown
    \/ OnMouseUp

SpecRelease == InitRelease /\ [][NextRelease]_vars

\* The inspector's type and dimension edits over the lists that adding leaves.
InitKind == InitWith(MaxKindChanges)

NextKind ==
    \/ AddPrimitive
    \/ SelectPrimitive
    \/ InspectorType
    \/ InspectorDimension

SpecKind == InitKind /\ [][NextKind]_vars

\* The keyboard nudges over the positions that the inspector's fields leave.
InitNudge == InitWith(MaxNudgeChanges)

NextNudge ==
    \/ SelectPrimitive
    \/ HandleDeselect
    \/ InspectorPosition
    \/ HandleKeyDown

SpecNudge == InitNudge /\ [][NextNudge]_vars

\* The resolver alone, over its inputs.
NextResolve == ComputeScaledDimensions

SpecResolve == Init /\ [][NextResolve]_vars

---------------------------------------------------------------------------
\* Properties of the transform session.

\* what a drag may change of the store: each primitive's position and dimensions
Geometry(items) ==
    [i \in 1..Len(items) |->
        [id |-> items[i].id, position |-> items[i].position, dimensions |-> items[i].dimensions]]

\* the last event ended a drag (pressed, then only drag updates) without a
\* mouse-up: a deselect, or the selection of another primitive
AbortedDrag ==
    /\ last.gesture # <<>>
    /\ last.gesture[1].clean
    /\ \/ last.op = "deselect"
       \/ last.op = "select" /\ last.id # last.selectedId

\* C1 (commit gating): when a drag that began with a mouse-down on the gizmo and
\* saw only drag updates is ended by a deselect or by selecting another
\* primitive, with no mouse-up, every primitive's position and dimensions equal
\* their values at the mouse-down.
CommitGating ==
    AbortedDrag => Geometry(primitives) = Geometry(last.gesture[1].store)

\* a resize drag that scaled the proxy was ended by selecting another primitive
CommitGatingWitness ==
    /\ AbortedDrag
    /\ last.op = "select"
    /\ last.gesture[1].moved
    /\ last.gesture[1].mode = HANDLE_MODES.resize

\* the last event was the mouse-up of a drag during which the handle mode was changed
ReleaseAfterSwitch ==
    /\ last.op = "mouseUp"
    /\ last.gesture # <<>>
    /\ last.gesture[1].switched

\* C2: when the handle mode is switched while a drag is in progress, the
\* following mouse-up writes neither a position nor dimensions to the store.
SwitchDiscardsSession ==
    ReleaseAfterSwitch => last.arg.writes = <<>>

\* the last event was the mouse-up of a drag during which the handle mode stayed
ReleaseWithoutSwitch ==
    /\ last.op = "mouseUp"
    /\ last.gesture # <<>>
    /\ ~last.gesture[1].switched

\* the primitive with the given id, with one field replaced
WithField(items, id, field, value) ==
    [i \in 1..Len(items) |->
        IF items[i].id # id THEN items[i]
        ELSE IF field = "position" THEN [items[i] EXCEPT !.position = value]
        ELSE [items[i] EXCEPT !.dimensions = value]]

\* C3: the mouse-up of a drag whose handle mode did not change applies exactly
\* one patch, to the selected primitive: of its position alone in move mode, of
\* its dimensions alone in resize mode.
ReleaseCommitsOnce ==
    ReleaseWithoutSwitch =>
        LET writes == last.arg.writes
            field == IF last.gesture[1].mode = HANDLE_MODES.resize THEN "dimensions" ELSE "position"
        IN  /\ Len(writes) = 1
            /\ DOMAIN writes[1] = {field}
            /\ last.id = last.selectedId
            /\ primitives = WithField(last.primitives, last.id, field, writes[1][field])

\* a resize drag that scaled the proxy was released, and the dimensions changed
ReleaseCommitsOnceWitness ==
    /\ ReleaseWithoutSwitch
    /\ last.gesture[1].mode = HANDLE_MODES.resize
    /\ last.gesture[1].moved
    /\ Geometry(primitives) # Geometry(last.primitives)

---------------------------------------------------------------------------
\* Properties of the Primitive Store.

\* C4: in every reachable state every dimension field of every primitive is at
\* least the floor 0.1 (and so a finite positive number).
DimensionsAtLeastFloor ==
    \A i \in 1..Len(primitives) :
        \A key \in DOMAIN primitives[i].dimensions :
            primitives[i].dimensions[key] >= MIN_DIMENSION

\* C5: in every reachable state no two primitives of the store have the same id.
UniqueIds == Cardinality(Ids(primitives)) = Len(primitives)

\* the 1-based places at which the list holds the given id
Places(items, id) == {i \in 1..Len(items) : items[i].id = id}

\* the list without the element at place i, the others in their order
RemovedAt(items, i) == SubSeq(items, 1, i - 1) \o SubSeq(items, i + 1, Len(items))

\* the store after remove of the primitive at place i, when it was the selected one
SelectedRemovedAt(i) ==
    /\ primitives = RemovedAt(last.primitives, i)
    /\ selectedId = IF primitives = <<>> THEN NoId ELSE primitives[Len(primitives)].id

\* the last event was remove(id) of the primitive that was selected
RemovedSelected ==
    /\ last.op = "removePrimitive"
    /\ last.id = last.selectedId
    /\ last.id \in Ids(last.primitives)

\* C6: remove(id) of the selected primitive deletes it, keeps the others in
\* their order, and selects the last element of the resulting list, or nothing
\* when that list is empty.
RemoveSelectedSelectsLast ==
    RemovedSelected => \E i \in Places(last.primitives, last.id) : SelectedRemovedAt(i)

\* the same, of stores in which the id is carried by one primitive alone
RemoveSelectedSelectsLastOfOne ==
    (RemovedSelected /\ Cardinality(Places(last.primitives, last.id)) = 1)
        => \E i \in Places(last.primitives, last.id) : SelectedRemovedAt(i)

\* the last event was a call of the named mutator with an id that was not in the store
AbsentId(op) ==
    /\ last.op = op
    /\ last.id \notin Ids(last.primitives)

\* the last event left the list and the selection as it found them
StoreUnchanged ==
    /\ primitives = last.primitives
    /\ selectedId = last.selectedId

\* C7: remove(id) with an id that is not in the store leaves the list and the
\* selection, a selection of none included, unchanged.
RemoveAbsentIsNoOp == AbsentId("removePrimitive") => StoreUnchanged

\* C8: patch(id, updater) and reorder(id, direction) with an id that is not in
\* the store leave the list, by value and order, and the selection unchanged.
PatchReorderAbsentIsNoOp ==
    (AbsentId("patchPrimitive") \/ AbsentId("reorderPrimitive")) => StoreUnchanged

\* patch was called with an absent id on a store of several primitives
PatchReorderAbsentIsNoOpWitness ==
    /\ AbsentId("patchPrimitive")
    /\ Len(last.primitives) >= 2

\* the last event was reorder(id, -1) of the first or reorder(id, +1) of the last primitive
ReorderAtBoundary ==
    /\ last.op = "reorderPrimitive"
    /\ Len(last.primitives) >= 1
    /\ \/ last.arg = -1 /\ last.primitives[1].id = last.id
       \/ last.arg = 1 /\ last.primitives[Len(last.primitives)].id = last.id

\* C9 (reorder boundary): reorder(id, -1) of the first primitive and
\* reorder(id, +1) of the last primitive leave the list unchanged, whatever
\* its length.
ReorderBoundary == ReorderAtBoundary => primitives = last.primitives

\* the same, of stores in which the id is carried by one primitive alone
ReorderBoundaryOfOne ==
    (ReorderAtBoundary /\ Cardinality(Places(last.primitives, last.id)) = 1)
        => primitives = last.primitives

\* the last event was reorder(id, d) of a primitive at place i, with i + d in the list
ReorderInside(i) ==
    /\ last.op = "reorderPrimitive"
    /\ i \in Places(last.primitives, last.id)
    /\ i + last.arg \in 1..Len(last.primitives)

\* the list with the elements at places i and j exchanged
Exchanged(items, i, j) ==
    [k \in 1..Len(items) |-> IF k = i THEN items[j] ELSE IF k = j THEN items[i] ELSE items[k]]

\* C10: reorder(id, d) of a primitive at place i that is not at the boundary in
\* direction d yields the old list with the elements at i and i + d exchanged,
\* every other place unchanged; the selection is unchanged.
ReorderSwaps ==
    \A i \in 1..Len(last.primitives) :
        ReorderInside(i) =>
            /\ primitives = Exchanged(last.primitives, i, i + last.arg)
            /\ selectedId = last.selectedId

\* the same, of stores in which the id is carried by one primitive alone
ReorderSwapsOfOne ==
    \A i \in 1..Len(last.primitives) :
        (ReorderInside(i) /\ Cardinality(Places(last.primitives, last.id)) = 1) =>
            /\ primitives = Exchanged(last.primitives, i, i + last.arg)
            /\ selectedId = last.selectedId

\* the last event was add(shapeKind)
Added == last.op = "addPrimitive"

\* C11: add(shapeKind) appends exactly one new primitive, of that kind, at the
\* end of the list, leaves the existing primitives and their order unchanged,
\* and makes the new primitive the selection.
AddAppendsAndSelects ==
    Added =>
        /\ Len(primitives) = Len(last.primitives) + 1
        /\ SubSeq(primitives, 1, Len(last.primitives)) = last.primitives
        /\ primitives[Len(primitives)].type = last.arg
        /\ primitives[Len(primitives)].id = last.id
        /\ selectedId = primitives[Len(primitives)].id

\* a sphere was added to a store of three or more primitives, another one selected
AddAppendsAndSelectsWitness ==
    /\ Added
    /\ last.arg = "sphere"
    /\ Len(last.primitives) >= 3
    /\ last.selectedId \in Ids(last.primitives)

\* the default dimensions and the seated position of each kind, in thousandths
KindDefaults ==
    [box |-> [dimensions |-> [width |-> 2000, height |-> 2000, depth |-> 2000],
              position |-> [x |-> 0, y |-> 0, z |-> 1000]],
     sphere |-> [dimensions |-> [radius |-> 1500],
                 position |-> [x |-> 0, y |-> 0, z |-> 1500]],
     cylinder |-> [dimensions |-> [radius |-> 1100, height |-> 3000],
                   position |-> [x |-> 0, y |-> 0, z |-> 1500]]]

\* C12: the primitive created by add(shapeKind) has the kind's default
\* dimensions and the seated position x = 0, y = 0, z = half the default height,
\* or the default radius for a kind without a height.
AddUsesKindDefaults ==
    Added =>
        LET new == primitives[Len(primitives)]
        IN  /\ new.dimensions = KindDefaults[last.arg].dimensions
            /\ new.position = KindDefaults[last.arg].position

\* a cylinder, a kind with a height, was added
AddUsesKindDefaultsWitness ==
    /\ Added
    /\ last.arg = "cylinder"
    /\ primitives[Len(primitives)].position.z = 1500

---------------------------------------------------------------------------
\* Claims about the Solid Builder.

Exported == last.op = "exportToSTL"
Built == Exported /\ ~last.arg.built.thrown

\* the solid of one primitive, as the library sees it
solid(primitive) == fromMesh(primitiveToMesh(primitive))

RECURSIVE Accumulate(_, _)
\* the accumulator after the first n primitives of a non-empty list
Accumulate(items, n) ==
    IF n = 1 THEN solid(items[1])
    ELSE IF items[n].operation = "subtract"
    THEN subtract(Accumulate(items, n - 1), solid(items[n]))
    ELSE union(Accumulate(items, n - 1), solid(items[n]))

\* C13: the build of a non-empty list is the left fold over the list's order:
\* the accumulator starts as the solid of the first primitive and takes each
\* later primitive by union when it is additive, by subtraction when subtractive.
BuildIsLeftFold ==
    (Built /\ Len(primitives) > 0) =>
        /\ Len(last.arg.built.value) = 1
        /\ last.arg.built.value[1].csg = Accumulate(primitives, Len(primitives))

BuildIsLeftFoldWitness ==
    /\ Built
    /\ Len(primitives) >= 3
    /\ \E i, j \in 2..Len(primitives) :
          i < j /\ primitives[i].operation = "subtract" /\ primitives[j].operation = "add"

\* the list with the operation of its first primitive replaced
Rebased(items, operation) == [items EXCEPT ![1].operation = operation]

\* C14: the first primitive is the unconditional base: changing only the
\* operation tag of the primitive at index 0 does not change the build.
BaseIgnoresOperation ==
    (Built /\ Len(primitives) > 0) =>
        \A operation \in {"add", "subtract"} :
            buildCombinedMesh(Rebased(primitives, operation)) = last.arg.built.value

BaseIgnoresOperationWitness ==
    /\ Built
    /\ Len(primitives) >= 2
    /\ primitives[1].operation = "subtract"
    /\ primitives[2].operation = "add"

\* Geometry of the built expression, read at sample points of engine space.
GridXZ == {-2500, 0, 2500}
GridUp == {500, 1500, 3500}
GridPoints == {[x |-> x, y |-> y, z |-> z] : x \in GridXZ, y \in GridUp, z \in GridXZ}

\* the grid and the centre of every primitive of the list
SamplePoints(items) ==
    GridPoints \cup {positionToWorld(items[i].position) : i \in 1..Len(items)}

\* the point lies in the closed volume the geometry spans around its position
InMesh(mesh, point) ==
    LET dx == point.x - mesh.position.x
        dy == point.y - mesh.position.y
        dz == point.z - mesh.position.z
        args == mesh.geometry.args
    IN  IF mesh.geometry.kind = "BoxGeometry"
        THEN /\ 2 * Abs(dx) <= Abs(args[1])
             /\ 2 * Abs(dy) <= Abs(args[2])
             /\ 2 * Abs(dz) <= Abs(args[3])
        ELSE IF mesh.geometry.kind = "SphereGeometry"
        THEN dx * dx + dy * dy + dz * dz <= args[1] * args[1]
        ELSE /\ dx * dx + dz * dz <= args[1] * args[1]
             /\ 2 * Abs(dy) <= Abs(args[3])

RECURSIVE Holds(_, _)
\* the point lies in the solid a CSG expression denotes
Holds(csg, point) ==
    IF csg.op = "fromMesh" THEN InMesh(csg.mesh, point)
    ELSE IF csg.op = "union" THEN Holds(csg.left, point) \/ Holds(csg.right, point)
    ELSE Holds(csg.left, point) /\ ~Holds(csg.right, point)

\* two builds of non-empty lists differ at one of the points
DifferAt(points, built, other) ==
    \E point \in points : Holds(built[1].csg, point) # Holds(other[1].csg, point)

\* the solid of the first primitive holds every sampled point of the second's
Covers(points, outer, inner) ==
    \A point \in points : Holds(solid(inner), point) => Holds(solid(outer), point)

\* an additive A and a subtractive B of the list, B's solid not holding all of A's
OrderSensitivePair(A, B) ==
    /\ A.operation = "add"
    /\ B.operation = "subtract"
    /\ ~Covers(SamplePoints(<<A, B>>), B, A)

\* C15: for an additive A and a subtractive B whose solid does not fully
\* contain A's, the build of [A, B] differs from the build of [B, A].
OrderSensitivity ==
    Built =>
        \A i, j \in 1..Len(primitives) :
            LET A == primitives[i]
                B == primitives[j]
            IN  OrderSensitivePair(A, B) =>
                    DifferAt(SamplePoints(<<A, B>>),
                             buildCombinedMesh(<<A, B>>), buildCombinedMesh(<<B, A>>))

OrderSensitivityWitness ==
    /\ Built
    /\ Len(primitives) = 2
    /\ OrderSensitivePair(primitives[1], primitives[2])
    /\ \E point \in SamplePoints(primitives) :
          Holds(solid(primitives[1]), point) /\ Holds(solid(primitives[2]), point)

\* reorder(id, direction) of the list would move a primitive: 0-based index
\* of the primitive and of its target are both inside the list
InnerReorder(items, id, direction) ==
    /\ findIndex(items, id) # -1
    /\ findIndex(items, id) + direction \in 0..(Len(items) - 1)

\* the two primitives agree in all that the build reads
SameSolid(one, other) ==
    /\ one.type = other.type
    /\ one.operation = other.operation
    /\ one.position = other.position
    /\ one.dimensions = other.dimensions

\* the primitives reorder(id, direction) exchanges agree in all the build reads
ExchangesEquals(items, id, direction) ==
    /\ InnerReorder(items, id, direction)
    /\ SameSolid(items[findIndex(items, id) + 1],
                 items[findIndex(items, id) + direction + 1])

BuildFailed ==
    /\ Exported
    /\ Len(primitives) > 0
    /\ last.arg.csgFails

\* C18: a failure of the boolean-geometry library during a build reaches the
\* caller as a returned outcome of its own, neither null nor a mesh.
BuildFailureIsAnOutcome ==
    BuildFailed =>
        /\ ~last.arg.built.thrown
        /\ last.arg.built.value # <<>>
        /\ last.arg.built.value # buildCombinedMesh(primitives)

\* the list's value as the spec compares lists: kinds, operations, positions
\* and dimensions in order, ids and names blanked
ValueOf(items) ==
    [i \in 1..Len(items) |-> [items[i] EXCEPT !.id = "", !.name = ""]]

\* C19 (idempotent rebuild): the build is a function of the list's value alone
\* (kinds, operations, positions and dimensions in order), whatever the
\* selection, the handle mode, the sessions and the calls made before; and
\* building leaves the list as it was.
IdempotentRebuild ==
    Built =>
        /\ last.arg.built.value = buildCombinedMesh(ValueOf(last.primitives))
        /\ primitives = last.primitives

IdempotentRebuildWitness ==
    /\ Built
    /\ Len(primitives) > 0
    /\ handleMode = "resize"
    /\ dragging
    /\ selectedId \in Ids(primitives)
    /\ sessionRef[selectedId] # NoSession

---------------------------------------------------------------------------
\* Claims about the remap between user space and engine space.

\* the positions the program holds: of the primitives (user space), of the
\* proxy mesh (engine space)
HeldPositions ==
    {primitives[i].position : i \in 1..Len(primitives)} \cup {meshRef.position}

\* the position with its second and third coordinate exchanged
YZExchanged(p) == [x |-> p.x, y |-> p.z, z |-> p.y]

\* C20 (remap involution): positionFromWorld(positionToWorld(p)) = p and
\* positionToWorld(positionFromWorld(p)) = p, exactly; both map (x, y, z) to
\* (x, z, y).
RemapInvolution ==
    \A p \in HeldPositions :
        /\ positionFromWorld(positionToWorld(p)) = p
        /\ positionToWorld(positionFromWorld(p)) = p
        /\ positionToWorld(p) = YZExchanged(p)
        /\ positionFromWorld(p) = YZExchanged(p)

RemapInvolutionWitness ==
    /\ last.op = "mouseUp"
    /\ last.arg.mode = "translate"
    /\ last.arg.writes # <<>>
    /\ \E p \in HeldPositions : p.x # p.y /\ p.y # p.z /\ p.x # p.z

---------------------------------------------------------------------------
\* Claims about the Dimension-from-Scale Resolver.

Resolved == last.op = "computeScaledDimensions"

\* C21 (scale clamp): for every kind, every base dimension record and every
\* scale triple, zero and negative multipliers included, each dimension the
\* resolver returns is at least 0.1.
ScaleClamp ==
    Resolved =>
        \A key \in DOMAIN last.arg.result : last.arg.result[key] >= MIN_DIMENSION

\* resolve('sphere', {radius: 1}, (0, 0, 0)) was computed and gave radius 0.1
ScaleClampWitness ==
    /\ Resolved
    /\ last.arg.type = "sphere"
    /\ last.arg.baseDimensions = [radius |-> 1000]
    /\ last.arg.scale = [x |-> Num(0), y |-> Num(0), z |-> Num(0)]
    /\ last.arg.result = [radius |-> 100]

\* round2(max(0.1, base * n / d)) in thousandths, of a base in thousandths
\* and a multiplier n / d that is not negative
Round2Floored(base, n, d) ==
    LET floored == IF base * n < MIN_DIMENSION * d THEN MIN_DIMENSION * d ELSE base * n
    IN  10 * ((2 * floored + 10 * d) \div (20 * d))

\* the absolute value of a multiplier as numerator and denominator
AbsN(factor) == Abs(factor[1])

\* the base record has the fields of the kind
BaseOf(type) == DOMAIN last.arg.baseDimensions = DOMAIN TYPE_PRESETS[type].dimensions

ResolvedOf(type) == Resolved /\ last.arg.type = type /\ BaseOf(type)

\* C22 (box anisotropic scale): for a box the resolver returns
\* width = round2(max(0.1, baseWidth * |sx|)), height likewise from |sy| and
\* depth from |sz|, each axis by its own multiplier alone.
BoxAnisotropicScale ==
    ResolvedOf("box") =>
        LET base == last.arg.baseDimensions
            scale == last.arg.scale
        IN  last.arg.result =
                [width |-> Round2Floored(base.width, AbsN(scale.x), scale.x[2]),
                 height |-> Round2Floored(base.height, AbsN(scale.y), scale.y[2]),
                 depth |-> Round2Floored(base.depth, AbsN(scale.z), scale.z[2])]

\* resolve('box', 2/2/2, (2, 0.5, 3)) was computed and gave 4/1/6
BoxAnisotropicScaleWitness ==
    /\ ResolvedOf("box")
    /\ last.arg.baseDimensions = [width |-> 2000, height |-> 2000, depth |-> 2000]
    /\ last.arg.scale = [x |-> Num(2), y |-> <<1, 2>>, z |-> Num(3)]
    /\ last.arg.result = [width |-> 4000, height |-> 1000, depth |-> 6000]

\* C23: for a sphere the resolver returns
\* radius = round2(max(0.1, baseRadius * (|sx| + |sy| + |sz|) / 3)).
SphereMeanScale ==
    ResolvedOf("sphere") =>
        LET base == last.arg.baseDimensions
            scale == last.arg.scale
            sum == AbsN(scale.x) * scale.y[2] * scale.z[2]
                     + AbsN(scale.y) * scale.x[2] * scale.z[2]
                     + AbsN(scale.z) * scale.x[2] * scale.y[2]
        IN  last.arg.result =
                [radius |-> Round2Floored(base.radius, sum,
                                          3 * scale.x[2] * scale.y[2] * scale.z[2])]

\* a sphere of radius 1.5 under (2, 1, 3) has radius 3
SphereMeanScaleWitness ==
    /\ ResolvedOf("sphere")
    /\ last.arg.baseDimensions = [radius |-> 1500]
    /\ last.arg.scale = [x |-> Num(2), y |-> Num(1), z |-> Num(3)]
    /\ last.arg.result = [radius |-> 3000]

\* C24: for a cylinder the resolver returns
\* radius = round2(max(0.1, baseRadius * (|sx| + |sz|) / 2)) and
\* height = round2(max(0.1, baseHeight * |sy|)); the y multiplier does not
\* enter the radius, the x and z multipliers do not enter the height.
CylinderScale ==
    ResolvedOf("cylinder") =>
        LET base == last.arg.baseDimensions
            scale == last.arg.scale
            sum == AbsN(scale.x) * scale.z[2] + AbsN(scale.z) * scale.x[2]
        IN  last.arg.result =
                [radius |-> Round2Floored(base.radius, sum, 2 * scale.x[2] * scale.z[2]),
                 height |-> Round2Floored(base.height, AbsN(scale.y), scale.y[2])]

\* a cylinder of radius 1.1 and height 3 under (1, 3, 1) keeps its radius
CylinderScaleWitness ==
    /\ ResolvedOf("cylinder")
    /\ last.arg.baseDimensions = [radius |-> 1100, height |-> 3000]
    /\ last.arg.scale = [x |-> Num(1), y |-> Num(3), z |-> Num(1)]
    /\ last.arg.result = [radius |-> 1100, height |-> 9000]

---------------------------------------------------------------------------
\* Claims about what a release writes.

\* the last event was a mouse-up of the gizmo in the given transform mode
Released(mode) == last.op = "mouseUp" /\ last.arg.mode = mode

\* a stored value (thousandths) rounded to two decimals, a half going up
Round2(v) == 10 * ((v + 5) \div 10)

\* the primitives of the list that carry the id
Carriers(items, id) == {items[i] : i \in {j \in 1..Len(items) : items[j].id = id}}

\* C25: a translate release patches the selected primitive's position to the
\* proxy's engine-space position, remapped to user space and rounded to two
\* decimals: stored (x, y, z) = (round2(proxy.x), round2(proxy.z), round2(proxy.y)).
TranslateReleaseStoresProxy ==
    Released("translate") =>
        /\ last.id = last.selectedId
        /\ Carriers(primitives, last.id) # {}
        /\ \A primitive \in Carriers(primitives, last.id) :
              primitive.position = [x |-> Round2(last.arg.mesh.position.x),
                                    y |-> Round2(last.arg.mesh.position.z),
                                    z |-> Round2(last.arg.mesh.position.y)]

\* a translate drag left the proxy off the two-decimal grid and was released
TranslateReleaseStoresProxyWitness ==
    /\ Released("translate")
    /\ last.gesture # <<>>
    /\ last.gesture[1].moved
    /\ last.arg.mesh.position.z # Round2(last.arg.mesh.position.z)
    /\ Geometry(primitives) # Geometry(last.primitives)

\* the dimensions the selected primitive had at the mouse-down of the drag
SnapshotAtPress ==
    {primitive.dimensions : primitive \in Carriers(last.gesture[1].store, last.id)}

\* C26: a resize release patches the selected primitive's dimensions to
\* resolve(kind, snapshot, proxy scale), the snapshot being the dimensions
\* captured at the mouse-down, and leaves the proxy's scale at (1, 1, 1).
ResizeReleaseStoresResolved ==
    Released("scale") =>
        /\ Carriers(primitives, last.id) # {}
        /\ \A primitive \in Carriers(primitives, last.id) :
              \E snapshot \in SnapshotAtPress :
                  primitive.dimensions =
                      computeScaledDimensions(primitive.type, snapshot, last.arg.mesh.scale)
        /\ meshRef.scale = UnitScale

\* the same, of the drags during which the handle mode stayed
ResizeReleaseStoresResolvedUnswitched ==
    ~ReleaseAfterSwitch => ResizeReleaseStoresResolved

ResizeReleaseStoresResolvedWitness ==
    /\ Released("scale")
    /\ ReleaseWithoutSwitch
    /\ last.gesture[1].moved
    /\ last.arg.mesh.scale # UnitScale
    /\ Geometry(primitives) # Geometry(last.primitives)

---------------------------------------------------------------------------
\* Claims about the edits of single fields.

NumericEdits == {"inspectorPosition", "inspectorDimension", "dimensionLabel", "distanceLabel"}

\* the last event was an edit of a numeric field with a text that is no number
InvalidNumericEdit ==
    /\ last.op \in NumericEdits
    /\ ~IsFinite(ParseFloat(last.arg[2]))

\* C27 (invalid numeric input): an inspector or on-canvas label edit of a
\* position or dimension field whose text does not parse to a finite number
\* leaves that field at its previous value and changes nothing else.
InvalidInputKeepsValue ==
    InvalidNumericEdit => StoreUnchanged

\* the same, of the fields of the inspector alone, in lists of distinct ids
InvalidInspectorInputKeepsValue ==
    (InvalidNumericEdit /\ last.op \in {"inspectorPosition", "inspectorDimension"}
       /\ \A i, j \in 1..Len(last.primitives) :
             last.primitives[i].id = last.primitives[j].id => i = j)
        => StoreUnchanged

TypeChanged == last.op = "inspectorType"

\* C28: changing a primitive's kind at edit time sets its dimensions to exactly
\* the new kind's default dimensions and leaves its id, name, operation,
\* position, its index in the list and the selection unchanged.
TypeChangeResetsDimensions ==
    TypeChanged =>
        /\ Len(primitives) = Len(last.primitives)
        /\ selectedId = last.selectedId
        /\ \A i \in 1..Len(primitives) :
              primitives[i] =
                  IF last.primitives[i].id = last.id
                  THEN [last.primitives[i] EXCEPT
                            !.type = last.arg,
                            !.dimensions = KindDefaults[last.arg].dimensions]
                  ELSE last.primitives[i]

\* a cylinder that was not first in the list became a box
TypeChangeResetsDimensionsWitness ==
    /\ TypeChanged
    /\ last.arg = "box"
    /\ \E i \in 2..Len(primitives) :
          /\ last.primitives[i].id = last.id
          /\ last.primitives[i].type = "cylinder"
          /\ primitives[i].dimensions = [width |-> 2000, height |-> 2000, depth |-> 2000]

---------------------------------------------------------------------------
\* Claims about selection and identity.

\* the places of the list whose primitive is the selected one (isSelected)
SelectedPlaces == {i \in 1..Len(primitives) : primitives[i].id = selectedId}

\* C29: in every reachable state at most one primitive of the list is
\* selected: at most one list element has the id of the current selection.
AtMostOneSelected == Cardinality(SelectedPlaces) <= 1

\* the ids of the list, place by place
IdsOf(items) == [i \in 1..Len(items) |-> items[i].id]

\* C30, first part: no operation other than add and remove changes the id of
\* an existing primitive: every edit keeps the id at every place, and a reorder
\* moves the primitives with their ids.
IdsKeptByEdits ==
    /\ last.op \notin {"init", "addPrimitive", "removePrimitive", "reorderPrimitive"} =>
          IdsOf(primitives) = IdsOf(last.primitives)
    /\ last.op = "reorderPrimitive" =>
          \A id \in IdPool :
              Cardinality(Places(primitives, id)) = Cardinality(Places(last.primitives, id))
    /\ last.op = "addPrimitive" =>
          SubSeq(IdsOf(primitives), 1, Len(last.primitives)) = IdsOf(last.primitives)
    /\ last.op = "removePrimitive" =>
          IdsOf(primitives) = SelectSeq(IdsOf(last.primitives), LAMBDA id : id # last.id)

\* C30: a primitive's id is immutable: no operation changes the id of an
\* existing primitive, and the set of ids in the store changes only by add
\* (one id more) and by remove (one id fewer).
IdImmutable ==
    /\ IdsKeptByEdits
    /\ last.op \notin {"init", "addPrimitive", "removePrimitive"} =>
          Ids(primitives) = Ids(last.primitives)
    /\ last.op = "addPrimitive" =>
          /\ Ids(primitives) = Ids(last.primitives) \cup {last.id}
          /\ Cardinality(Ids(primitives)) = Cardinality(Ids(last.primitives)) + 1
    /\ (last.op = "removePrimitive" /\ last.id \in Ids(last.primitives)) =>
          /\ Ids(primitives) = Ids(last.primitives) \ {last.id}
          /\ Cardinality(Ids(primitives)) = Cardinality(Ids(last.primitives)) - 1

\* the same, of the events that found a list of distinct ids and, when they
\* added, drew a fresh id
IdImmutableOfDistinct ==
    (/\ \A id \in IdPool : Cardinality(Places(last.primitives, id)) <= 1
     /\ last.op = "addPrimitive" => last.id \notin Ids(last.primitives))
        => IdImmutable

---------------------------------------------------------------------------
\* Further claims about the transform session.

\* a drag is in progress that has seen nothing but drag updates since its press
CleanDrag == gesture # <<>> /\ gesture[1].clean

\* C31: while a session is active, drag updates of the proxy leave the
\* Primitive Store and the selection unchanged; as long as no other event
\* occurred, the store is the one found at the mouse-down.
DragLeavesStore ==
    /\ last.op = "drag" => StoreUnchanged
    /\ CleanDrag => primitives = gesture[1].store

\* a translate drag has moved the proxy away from the stored position
DragLeavesStoreWitness ==
    /\ last.op = "drag"
    /\ CleanDrag
    /\ gesture[1].moved
    /\ last.arg = "translate"
    /\ \E primitive \in Carriers(primitives, selectedId) :
          meshRef.position # positionToWorld(primitive.position)

\* C32: after every release (mouse-up), in either mode and whether or not a
\* commit was made, the session is idle and its snapshot is cleared.
ReleaseClearsSession ==
    last.op = "mouseUp" =>
        /\ ~dragging
        /\ gesture = <<>>
        /\ sessionRef[last.id] = NoSession

\* a resize drag that had captured a snapshot was released
ReleaseClearsSessionWitness ==
    /\ last.op = "mouseUp"
    /\ last.arg.session # NoSession
    /\ last.arg.writes # <<>>

\* the last event was a release that wrote dimensions to the store
ResizeCommitted ==
    /\ last.op = "mouseUp"
    /\ \E k \in 1..Len(last.arg.writes) : "dimensions" \in DOMAIN last.arg.writes[k]

\* C33: every resize commit computes the new dimensions from the snapshot
\* captured at the mouse-down of the same drag: the drag was pressed in resize
\* mode, and the snapshot used is the dimensions the primitive had at that press.
CommitUsesOwnSnapshot ==
    ResizeCommitted =>
        /\ last.gesture[1].mode = HANDLE_MODES.resize
        /\ \E snapshot \in SnapshotAtPress :
              last.arg.session = <<[startDimensions |-> snapshot]>>

---------------------------------------------------------------------------
\* Further claims about the selection.

\* C34: in every reachable state the selection is none or the id of a
\* primitive currently in the store.
SelectionInStore == selectedId = NoId \/ selectedId \in Ids(primitives)

\* the selected primitive was removed and the selection moved to another one
SelectionInStoreWitness ==
    /\ RemovedSelected
    /\ last.selectedId \notin Ids(primitives)
    /\ selectedId \in Ids(primitives)

\* the last event removed a primitive of the store that was not the selected one
RemovedUnselected ==
    /\ last.op = "removePrimitive"
    /\ last.id \in Ids(last.primitives)
    /\ last.id # last.selectedId

\* C35: remove(id) of a primitive that is not the current selection leaves the
\* selection unchanged, also when the selection is none, provided the store
\* does not become empty.
RemoveUnselectedKeepsSelection ==
    (RemovedUnselected /\ primitives # <<>>) => selectedId = last.selectedId

\* the same, of the removes that found a primitive selected
RemoveUnselectedKeepsSelectionOfSome ==
    (RemovedUnselected /\ primitives # <<>> /\ last.selectedId # NoId)
        => selectedId = last.selectedId

---------------------------------------------------------------------------
\* Further claims about the gizmo commit.

\* a primitive apart from its position and its dimensions
Identity(primitive) ==
    [id |-> primitive.id, name |-> primitive.name, type |-> primitive.type,
     operation |-> primitive.operation]

NoDragResize ==
    /\ last.op = "mouseUp"
    /\ last.gesture # <<>>
    /\ last.gesture[1].mode = HANDLE_MODES.resize
    /\ last.gesture[1].clean
    /\ ~last.gesture[1].moved
    /\ last.arg.mesh.scale = UnitScale

OnResolverGrid(dimensions) ==
    \A key \in DOMAIN dimensions :
        dimensions[key] >= MIN_DIMENSION /\ dimensions[key] % 10 = 0

\* the same, of the records a resize commit could itself have stored
NoDragResizeKeepsResolved ==
    (NoDragResize /\ \A primitive \in Carriers(last.primitives, last.id) :
                        OnResolverGrid(primitive.dimensions))
        => primitives = last.primitives

NoDragResizeKeepsResolvedWitness ==
    /\ NoDragResize
    /\ last.arg.writes # <<>>
    /\ \A primitive \in Carriers(last.primitives, last.id) : OnResolverGrid(primitive.dimensions)

---------------------------------------------------------------------------
\* Further claims about the dimension records.

\* the dimension fields of a shape kind
KindFields(type) == DOMAIN TYPE_PRESETS[type].dimensions

\* C38: in every reachable state each primitive's dimensions record has exactly
\* the fields of its current shape kind (box: width, height, depth; sphere:
\* radius; cylinder: radius, height), also after a type change and after a
\* resize commit whose snapshot was captured before a type change.
DimensionsOfKind ==
    \A i \in 1..Len(primitives) :
        DOMAIN primitives[i].dimensions = KindFields(primitives[i].type)

\* the same, of the lists in which no two primitives carry one id
DimensionsOfKindOfDistinct == KeysDistinct => DimensionsOfKind

\* a resize release committed from a snapshot of another kind's fields
DimensionsOfKindOfDistinctWitness ==
    /\ ResizeCommitted
    /\ \E primitive \in Carriers(primitives, last.id) :
          DOMAIN last.arg.session[1].startDimensions # KindFields(primitive.type)

---------------------------------------------------------------------------
\* Further claims about the keyboard nudges.

\* the step of an arrow-key event, in thousandths: 0.25, or 0.5 with Shift
NudgeStep == IF last.arg[2] THEN 500 ELSE 250

\* the position an arrow-key event is to leave: Left/Right move x down/up,
\* Up/Down move z up/down
Nudged(position) ==
    [x |-> position.x + (IF last.arg[1] = "ArrowLeft" THEN -NudgeStep
                         ELSE IF last.arg[1] = "ArrowRight" THEN NudgeStep ELSE 0),
     y |-> position.y,
     z |-> position.z + (IF last.arg[1] = "ArrowUp" THEN NudgeStep
                         ELSE IF last.arg[1] = "ArrowDown" THEN -NudgeStep ELSE 0)]

\* whether the positions at the given places are what a nudge of them is to leave
NudgedAt(places) ==
    /\ last.selectedId # NoId
    /\ last.id = last.selectedId
    /\ selectedId = last.selectedId
    /\ Len(primitives) = Len(last.primitives)
    /\ \A i \in 1..Len(primitives) :
          IF i \in places
          THEN primitives[i] = [last.primitives[i] EXCEPT !.position = Nudged(@)]
          ELSE primitives[i] = last.primitives[i]

OnGrid(position) == \A axis \in Axes : position[axis] % 10 = 0

\* the same, of the nudges of one primitive (no other carries its id) whose
\* position is a multiple of 0.01 on every axis
NudgeFrameOnGrid ==
    /\ (/\ last.op = "keyDown"
        /\ \A i, j \in Places(last.primitives, last.id) : i = j
        /\ \A primitive \in Carriers(last.primitives, last.id) : OnGrid(primitive.position))
          => \E i \in Places(last.primitives, last.id) : NudgedAt({i})
    /\ last.op = "keyIgnored" => StoreUnchanged

NudgeFrameOnGridWitness ==
    /\ last.op = "keyDown"
    /\ last.arg = <<"ArrowUp", TRUE>>
    /\ primitives # last.primitives

====
